---- MODULE Spec2Model ----
(***************************************************************************)
(* file_via_socket.py: a TCP listener that accepts one connection at a     *)
(* time and streams the bytes it receives into a file named after the      *)
(* accept time.                                                            *)
(*                                                                         *)
(* Strings are sequences of character codes and a datetime is a record of  *)
(* its calendar fields.  A byte string is kept as the sequence of its      *)
(* maximal runs: the run [c, lo, hi] stands for the bytes lo..hi of the    *)
(* stream that the peer of connection c sends.                             *)
(***************************************************************************)
EXTENDS Integers, Sequences, FiniteSets, TLC

\* ---------------------------------------------------------------- bounds
\* Connections that may be made to the listener in one run.
MaxConns == 2
\* Segments the peers send in one run, all connections together.
MaxSends == 3

\* ------------------------------------------------------ program constants
\* conn.recv(4096)
RecvSize == 4096

\* ------------------------------------------------------------- characters
Slash == 47
Backslash == 92
Dot == 46
Underscore == 95
Zero == 48

\* "via_socket", "txt", "out", "log" as character codes
StrViaSocket == <<118, 105, 97, 95, 115, 111, 99, 107, 101, 116>>
StrTxt == <<116, 120, 116>>
StrOut == <<111, 117, 116>>
StrLog == <<108, 111, 103>>

\* ------------------------------------------------------------ pure helpers
RECURSIVE rstrip(_, _)
\* str.rstrip(chars): drop trailing characters that are in chars
rstrip(s, chars) ==
    IF s # <<>> /\ s[Len(s)] \in chars
    THEN rstrip(SubSeq(s, 1, Len(s) - 1), chars)
    ELSE s

RECURSIVE lstrip(_, _)
\* str.lstrip(chars): drop leading characters that are in chars
lstrip(s, chars) ==
    IF s # <<>> /\ s[1] \in chars
    THEN lstrip(Tail(s), chars)
    ELSE s

\* strftime's zero-padded two-digit fields (%y %m %d %H %M %S)
Pad2(n) == <<Zero + (n \div 10), Zero + (n % 10)>>

\* strftime('%f'): microseconds, zero-padded to six digits
Pad6(n) ==
    <<Zero + (n \div 100000), Zero + ((n \div 10000) % 10),
      Zero + ((n \div 1000) % 10), Zero + ((n \div 100) % 10),
      Zero + ((n \div 10) % 10), Zero + (n % 10)>>

\* now.strftime("_%y%m%d_%H%M%S")
StrfDateTime(t) ==
    <<Underscore>> \o Pad2(t.year % 100) \o Pad2(t.month) \o Pad2(t.day)
    \o <<Underscore>> \o Pad2(t.hour) \o Pad2(t.minute) \o Pad2(t.second)

\* now.strftime('%f')[:3], a truncation one digit too short
StrfFraction3(t) == SubSeq(Pad6(t.microsecond), 1, 3)

\* now.strftime('%f')[:4]
StrfFraction(t) == SubSeq(Pad6(t.microsecond), 1, 4)

\* MakeFileName with the fraction cut to three digits.
MakeFileNameShortFraction(c, t) ==
    LET dir == IF c.filePath # <<>> THEN c.filePath \o <<Slash>> ELSE <<>>
        stem == dir \o c.filePrefix \o StrfDateTime(t) \o <<Dot>> \o StrfFraction3(t)
    IN  IF c.fileExt # <<>> THEN stem \o <<Dot>> \o c.fileExt ELSE stem

\* The file name built for configuration c at datetime t.
MakeFileName(c, t) ==
    LET dir == IF c.filePath # <<>> THEN c.filePath \o <<Slash>> ELSE <<>>
        stem == dir \o c.filePrefix \o StrfDateTime(t) \o <<Dot>> \o StrfFraction(t)
    IN  IF c.fileExt # <<>> THEN stem \o <<Dot>> \o c.fileExt ELSE stem

\* args.<option> of an option that was not given (Python's None)
None == <<0>>

\* The globals after argument parsing.
ResolveConfig(a) ==
    [filePath   |-> IF a.path # None THEN rstrip(a.path, {Slash, Backslash}) ELSE <<>>,
     filePrefix |-> IF a.prefix # None THEN a.prefix ELSE StrViaSocket,
     fileExt    |-> IF a.ext # None THEN lstrip(a.ext, {Dot}) ELSE StrTxt]

\* Python's comparison of two strings: s < t
RECURSIVE StrLess(_, _)
StrLess(s, t) ==
    IF t = <<>> THEN FALSE
    ELSE IF s = <<>> THEN TRUE
    ELSE IF s[1] # t[1] THEN s[1] < t[1]
    ELSE StrLess(Tail(s), Tail(t))

RECURSIVE Dec(_)
\* "{:}".format(n) for a natural number n: its decimal digits
Dec(n) == IF n < 10 THEN <<Zero + n>> ELSE Dec(n \div 10) \o <<Zero + (n % 10)>>

\* "{:.2f}".format(v / d) for d a power of 1024: v / d is exact in floating
\* point, and the formatting rounds the exact value half to even.
\* r * 100 is computed as A * 1024 + e to stay inside 32-bit integers.
Fixed2(v, d) ==
    LET q == v \div d
        r == v % d
        hi == r \div 1024
        lo == r % 1024
        A == hi * 100 + ((lo * 100) \div 1024)
        e == (lo * 100) % 1024
        d1 == d \div 1024
        h == A \div d1
        rest == (A % d1) * 1024 + e
        half == d \div 2
        up == rest > half \/ (rest = half /\ h % 2 = 1)
        H == IF up THEN h + 1 ELSE h
        whole == IF H = 100 THEN q + 1 ELSE q
        frac == IF H = 100 THEN 0 ELSE H
    IN  Dec(whole) \o <<Dot>> \o Pad2(frac)

KB == 1024
MB == 1024 * 1024
GB == 1024 * 1024 * 1024

\* " B", " KB", " MB", " GB"
UnitB == <<32, 66>>
UnitKB == <<32, 75, 66>>
UnitMB == <<32, 77, 66>>
UnitGB == <<32, 71, 66>>

\* bytes2human_readable with >= in place of >: a count equal to a threshold
\* is already scaled by it.
bytes2human_readable_from(bytes_val) ==
    IF bytes_val >= GB THEN Fixed2(bytes_val, GB) \o UnitGB
    ELSE IF bytes_val >= MB THEN Fixed2(bytes_val, MB) \o UnitMB
    ELSE IF bytes_val >= KB THEN Fixed2(bytes_val, KB) \o UnitKB
    ELSE Dec(bytes_val) \o UnitB

\* Lines 70-79.
bytes2human_readable(bytes_val) ==
    IF bytes_val > GB THEN Fixed2(bytes_val, GB) \o UnitGB
    ELSE IF bytes_val > MB THEN Fixed2(bytes_val, MB) \o UnitMB
    ELSE IF bytes_val > KB THEN Fixed2(bytes_val, KB) \o UnitKB
    ELSE Dec(bytes_val) \o UnitB

\* A byte count c written in two parts, <<c \div 2^20, c % 2^20>>, so that
\* counts of 2^31 and more can be written.
Wide(c) == <<c \div MB, c % MB>>

\* bytes2human_readable of a count given in two parts.  A count of 2^31 or
\* more is above 1024^3 (line 72): the whole gigabytes are counted apart and
\* the remainder is formatted as before.
bytes2human_readable_wide(c) ==
    IF c[1] < 2048
    THEN bytes2human_readable(c[1] * MB + c[2])
    ELSE LET frac == Fixed2((c[1] % 1024) * MB + c[2], GB)
         IN  Dec((c[1] \div 1024) + (frac[1] - Zero)) \o Tail(frac) \o UnitGB

\* --------------------------------------------------- argument validation
Colon == 58
Percent == 37
Plus == 43
Minus == 45
Space == 32
Digits == 48..57
HexDigits == Digits \cup (65..70) \cup (97..102)

\* The default of the global bindPort.
DefaultPort == 65432
\* "0.0.0.0", the default of the global bindIP
StrAnyAddr == <<Zero, Dot, Zero, Dot, Zero, Dot, Zero>>

RECURSIVE Split(_, _)
\* str.split(sep) for a one-character separator
Split(s, sep) ==
    IF \A i \in DOMAIN s : s[i] # sep
    THEN <<s>>
    ELSE LET i == CHOOSE i \in DOMAIN s : s[i] = sep /\ \A j \in 1..(i - 1) : s[j] # sep
         IN  <<SubSeq(s, 1, i - 1)>> \o Split(SubSeq(s, i + 1, Len(s)), sep)

RECURSIVE IntOfDigits(_)
\* The number written by a string of decimal digits.
IntOfDigits(s) ==
    IF s = <<>> THEN 0
    ELSE IntOfDigits(SubSeq(s, 1, Len(s) - 1)) * 10 + (s[Len(s)] - Zero)

\* What a type function of an argparse option does: it returns a value or
\* raises ValueError.
Returns(v) == [raised |-> FALSE, value |-> v]
ValueError == [raised |-> TRUE, value |-> None]

\* int(arg_val) for a string: surrounding blanks are ignored, a sign may come
\* first, then decimal digits; anything else raises ValueError.  (Numerals of
\* at most nine digits; digit grouping with underscores is not modelled.)
int(arg_val) ==
    LET t == rstrip(lstrip(arg_val, {Space}), {Space})
        signed == t # <<>> /\ t[1] \in {Plus, Minus}
        body == IF signed THEN Tail(t) ELSE t
    IN  IF body = <<>> \/ Len(body) > 9 \/ \E i \in DOMAIN body : body[i] \notin Digits
        THEN ValueError
        ELSE Returns(IF signed /\ t[1] = Minus THEN 0 - IntOfDigits(body)
                     ELSE IntOfDigits(body))

\* check_port_value with the lower limit off by one: port 1023 is let through.
check_port_value_from1023(arg_val) ==
    LET port == int(arg_val) IN
    IF port.raised THEN ValueError
    ELSE IF port.value < 1023 \/ port.value > 65535 THEN ValueError
    ELSE port

\* Lines 62-67.
check_port_value(arg_val) ==
    LET port == int(arg_val) IN
    IF port.raised THEN ValueError
    ELSE IF port.value <= 1023 \/ port.value > 65535 THEN ValueError
    ELSE port

\* ipaddress.IPv4Address accepts s: four decimal octets 0..255, separated by
\* dots, without leading zeros.
IsIPv4(s) ==
    LET octets == Split(s, Dot) IN
    /\ Len(octets) = 4
    /\ \A i \in 1..4 :
          LET o == octets[i] IN
          /\ o # <<>>
          /\ \A j \in DOMAIN o : o[j] \in Digits
          /\ Len(o) <= 3
          /\ ~(Len(o) > 1 /\ o[1] = Zero)
          /\ IntOfDigits(o) <= 255

\* One group of an IPv6 address: one to four hexadecimal digits.
IsHextet(h) == h # <<>> /\ Len(h) <= 4 /\ \A i \in DOMAIN h : h[i] \in HexDigits

\* ipaddress.IPv6Address accepts s: eight groups separated by colons, one run
\* of groups may be left out as "::", the last two groups may be written as an
\* IPv4 address, and a scope id may follow a "%".
IsIPv6(s) ==
    LET scoped == Split(s, Percent)
        raw == Split(scoped[1], Colon)
        last == raw[Len(raw)]
        hasV4 == \E i \in DOMAIN last : last[i] = Dot
        parts == IF hasV4
                 THEN SubSeq(raw, 1, Len(raw) - 1) \o << <<Zero>>, <<Zero>> >>
                 ELSE raw
        n == Len(parts)
        skips == {i \in 2..(n - 1) : parts[i] = <<>>}
    IN  /\ Len(scoped) = 1 \/ (Len(scoped) = 2 /\ scoped[2] # <<>>)
        /\ Len(raw) >= 3
        /\ hasV4 => IsIPv4(last)
        /\ n <= 9
        /\ Cardinality(skips) <= 1
        /\ IF skips # {}
           THEN LET k == CHOOSE i \in skips : TRUE
                    hi == IF parts[1] = <<>> THEN k - 2 ELSE k - 1
                    lo == IF parts[n] = <<>> THEN n - k - 1 ELSE n - k
                IN  /\ (parts[1] = <<>>) => (hi = 0)
                    /\ (parts[n] = <<>>) => (lo = 0)
                    /\ hi + lo <= 7
                    /\ \A i \in 1..hi : IsHextet(parts[i])
                    /\ \A i \in (n - lo + 1)..n : IsHextet(parts[i])
           ELSE /\ n = 8
                /\ \A i \in 1..8 : IsHextet(parts[i])

\* Lines 54-59: ipaddress.ip_address raises ValueError unless the string is
\* an IPv4 or an IPv6 address.
check_valid_ip(arg_val) ==
    IF IsIPv4(arg_val) \/ IsIPv6(arg_val) THEN Returns(arg_val) ELSE ValueError

\* The command line a with the two bind options added.
WithBind(a, ip, port) ==
    [path |-> a.path, prefix |-> a.prefix, ext |-> a.ext, bind_ip |-> ip,
     bind_port |-> port]

\* ------------------------------------------------------------ environment
\* The command line the server is started with: --path out/ --ext .txt
MainArgs == [path |-> StrOut \o <<Slash>>, prefix |-> None, ext |-> <<Dot>> \o StrTxt]

\* Successive values of datetime.now().  The clock is read at each accept and
\* need not have advanced since the previous reading.  The first two
\* readings differ only below the ten-thousandth of a second.
ClockReadings ==
    << [year |-> 2024, month |-> 3, day |-> 5, hour |-> 14, minute |-> 7,
        second |-> 9, microsecond |-> 123456],
       [year |-> 2024, month |-> 3, day |-> 5, hour |-> 14, minute |-> 7,
        second |-> 9, microsecond |-> 123499],
       [year |-> 2024, month |-> 3, day |-> 5, hour |-> 14, minute |-> 7,
        second |-> 9, microsecond |-> 123567] >>

\* Sizes of the segments a peer sends.
SendSizes == {1, RecvSize - 1, RecvSize}

\* Bytes lo..hi of the stream the peer of connection c sends.
Piece(c, lo, hi) == IF lo > hi THEN <<>> ELSE <<[c |-> c, lo |-> lo, hi |-> hi]>>

\* The first n bytes of the stream the peer of connection c sends.
Stream(c, n) == Piece(c, 1, n)

RECURSIVE BLen(_)
\* len(b)
BLen(b) == IF b = <<>> THEN 0 ELSE (b[1].hi - b[1].lo + 1) + BLen(Tail(b))

\* a + b: the runs of a followed by those of b, joined where b continues a
BCat(a, b) ==
    IF a = <<>> THEN b
    ELSE IF b = <<>> THEN a
    ELSE LET x == a[Len(a)]
             y == b[1]
         IN  IF x.c = y.c /\ x.hi + 1 = y.lo
             THEN SubSeq(a, 1, Len(a) - 1) \o <<[c |-> x.c, lo |-> x.lo, hi |-> y.hi]>>
                  \o Tail(b)
             ELSE a \o b

RECURSIVE BTake(_, _)
\* b[:n]
BTake(b, n) ==
    IF n <= 0 \/ b = <<>> THEN <<>>
    ELSE LET size == b[1].hi - b[1].lo + 1 IN
         IF n < size THEN Piece(b[1].c, b[1].lo, b[1].lo + n - 1)
         ELSE <<b[1]>> \o BTake(Tail(b), n - size)

RECURSIVE BDrop(_, _)
\* b[n:]
BDrop(b, n) ==
    IF n <= 0 \/ b = <<>> THEN b
    ELSE LET size == b[1].hi - b[1].lo + 1 IN
         IF n < size THEN Piece(b[1].c, b[1].lo + n, b[1].hi) \o Tail(b)
         ELSE BDrop(Tail(b), n - size)

\* Outcomes of open(fileName, 'wb')
OpenOutcomes == {"ok", "FileNotFoundError", "PermissionError"}

Min(a, b) == IF a < b THEN a ELSE b

\* ------------------------------------------------------------------ state
VARIABLES
    cfg,         \* filePath, filePrefix, fileExt after argument parsing
    pc,          \* "select" | "accepted" | "recv" | "exit": where the script is
    exitStatus,  \* the process's exit status once pc = "exit", -1 before
    exitCause,   \* "none" | "sigint" | "FileNotFoundError" | "PermissionError" | "OSError"
    out,         \* what the script has written to standard output, in order
    backlog,     \* connections made by peers and not yet accepted
    accepted,    \* connections accepted so far; the current one is number `accepted`
    openConns,   \* accepted connection objects that are not closed
    openFiles,   \* file objects that are not closed (by connection number)
    clk,         \* index into ClockReadings of the latest datetime.now()
    fileName,    \* the global fileName
    dataTotal,   \* the counter dataTotal
    fbuf,        \* bytes written to f that the file object still buffers
    disk,        \* the files on disk: name -> content
    opens,       \* how many open(fileName, 'wb') calls succeeded
    peerState,   \* the current connection's peer: "none" | "open" | "closed" | "reset"
    peerSent,    \* bytes the current peer has sent
    sendsDone,   \* segments the peers have sent so far
    inflight,    \* bytes sent by the peer and not yet returned by recv
    ends,        \* how each finished receive loop ended, in order: "eof" | "reset"
    sigPending,  \* SIGINT was delivered and signal_handler has not run yet
    sigAt,       \* where the script was when SIGINT was delivered ("none" if it was not)
    stamps,      \* file naming alone: a pair of datetimes
    names,       \* file naming alone: the names generated for them
    argv,        \* the command line: args.<option> of each option (None if not given)
    bound,       \* the listening socket has been bound
    bindAddr,    \* the globals <<bindIP, bindPort>>
    count,       \* formatting alone: a byte count, as <<count \div 2^20, count % 2^20>>
    text         \* formatting alone: the text bytes2human_readable returned for it

vars == <<cfg, pc, exitStatus, exitCause, out, backlog, accepted, openConns,
          openFiles, clk, fileName, dataTotal, fbuf, disk, opens, peerState,
          peerSent, sendsDone, inflight, ends, sigPending, sigAt, stamps, names,
          argv, bound, bindAddr, count, text>>

serverVars == <<pc, exitStatus, exitCause, out, accepted, openConns, openFiles,
                clk, fileName, dataTotal, fbuf, disk, opens, ends>>
peerVars == <<peerState, peerSent, sendsDone, inflight>>
sigVars == <<sigPending, sigAt>>
namingVars == <<stamps, names>>
startVars == <<argv, bound, bindAddr>>
formatVars == <<count, text>>

Msg(kind, arg) == [kind |-> kind, arg |-> arg]

\* The content of file n on disk after `data` is appended to it.
Appended(d, n, data) == [d EXCEPT ![n] = BCat(@, data)]

\* open(n, 'ab') in place of 'wb': an existing file keeps its content.
TruncatedKeeps(d, n) == [m \in DOMAIN d \cup {n} |-> IF m \in DOMAIN d THEN d[m] ELSE <<>>]

\* open(n, 'wb'): the file is created, or truncated if it exists.
Truncated(d, n) == [m \in DOMAIN d \cup {n} |-> IF m = n THEN <<>> ELSE d[m]]

\* State after lines 104-123: arguments parsed, socket bound and listening.
Init ==
    /\ cfg = ResolveConfig(MainArgs)
    /\ pc = "select"
    /\ exitStatus = -1
    /\ exitCause = "none"
    /\ out = <<Msg("waiting", <<>>)>>
    /\ backlog = 0
    /\ accepted = 0
    /\ openConns = {}
    /\ openFiles = {}
    /\ clk = 1
    /\ fileName = <<>>
    /\ dataTotal = 0
    /\ fbuf = <<>>
    /\ disk = <<>>
    /\ opens = 0
    /\ peerState = "none"
    /\ peerSent = 0
    /\ sendsDone = 0
    /\ inflight = <<>>
    /\ ends = <<>>
    /\ sigPending = FALSE
    /\ sigAt = "none"
    /\ stamps = <<>>
    /\ names = <<>>
    /\ argv = WithBind(MainArgs, None, None)
    /\ bound = TRUE
    /\ bindAddr = <<StrAnyAddr, DefaultPort>>
    /\ count = <<0, 0>>
    /\ text = <<>>

\* ------------------------------------------------------------------ peers
\* A client connects to the listening socket.
PeerConnect ==
    /\ pc # "exit"
    /\ bound
    /\ accepted + backlog < MaxConns
    /\ backlog' = backlog + 1
    /\ UNCHANGED <<cfg, serverVars, peerVars, sigVars, namingVars, startVars, formatVars>>

\* The current connection's peer sends a segment of k bytes.
PeerSend(k) ==
    /\ pc \in {"accepted", "recv"}
    /\ peerState = "open"
    /\ sendsDone < MaxSends
    /\ inflight' = BCat(inflight, Piece(accepted, peerSent + 1, peerSent + k))
    /\ peerSent' = peerSent + k
    /\ sendsDone' = sendsDone + 1
    /\ UNCHANGED <<cfg, serverVars, backlog, peerState, sigVars, namingVars, startVars, formatVars>>

\* The peer closes the connection cleanly.
PeerClose ==
    /\ pc \in {"accepted", "recv"}
    /\ peerState = "open"
    /\ peerState' = "closed"
    /\ UNCHANGED <<cfg, serverVars, backlog, peerSent, sendsDone, inflight, sigVars,
                   namingVars, startVars, formatVars>>

\* The peer resets the connection.
PeerReset ==
    /\ pc \in {"accepted", "recv"}
    /\ peerState = "open"
    /\ peerState' = "reset"
    /\ UNCHANGED <<cfg, serverVars, backlog, peerSent, sendsDone, inflight, sigVars,
                   namingVars, startVars, formatVars>>

\* ----------------------------------------------------------------- server
\* Lines 125-140: select reports the listening socket ready, the connection
\* is accepted, datetime.now() is read and the file name is built.  While
\* select only times out, nothing changes.
AcceptConn ==
    /\ pc = "select"
    /\ ~sigPending
    /\ backlog > 0
    /\ \E i \in clk..Len(ClockReadings) :
          /\ clk' = i
          /\ fileName' = MakeFileName(cfg, ClockReadings[i])
    /\ backlog' = backlog - 1
    /\ accepted' = accepted + 1
    /\ openConns' = openConns \cup {accepted + 1}
    /\ peerState' = "open"
    /\ peerSent' = 0
    /\ inflight' = <<>>
    /\ pc' = "accepted"
    /\ UNCHANGED <<cfg, exitStatus, exitCause, out, openFiles, dataTotal, fbuf, disk,
                   opens, ends, sendsDone, sigVars, namingVars, startVars, formatVars>>

\* OpenFileOk without dataTotal = 0: the counter runs on from the last connection.
OpenFileOkKeepsTotal ==
    /\ pc = "accepted"
    /\ ~sigPending
    /\ disk' = Truncated(disk, fileName)
    /\ openFiles' = openFiles \cup {accepted}
    /\ opens' = opens + 1
    /\ out' = Append(out, Msg("got", accepted))
    /\ fbuf' = <<>>
    /\ pc' = "recv"
    /\ UNCHANGED <<cfg, exitStatus, exitCause, backlog, accepted, openConns, clk,
                   fileName, dataTotal, ends, peerVars, sigVars, namingVars, startVars, formatVars>>

\* Lines 142-144: conn is entered, the file is opened, dataTotal is zeroed.
OpenFileOk ==
    /\ pc = "accepted"
    /\ ~sigPending
    /\ disk' = Truncated(disk, fileName)
    /\ openFiles' = openFiles \cup {accepted}
    /\ opens' = opens + 1
    /\ out' = Append(out, Msg("got", accepted))
    /\ dataTotal' = 0
    /\ fbuf' = <<>>
    /\ pc' = "recv"
    /\ UNCHANGED <<cfg, exitStatus, exitCause, backlog, accepted, openConns, clk,
                   fileName, ends, peerVars, sigVars, namingVars, startVars, formatVars>>

\* OpenFileFails without exit(1): the error is reported and the loop goes on.
OpenFileFailsGoesOn ==
    /\ pc = "accepted"
    /\ ~sigPending
    /\ \E e \in OpenOutcomes \ {"ok"} :
          /\ out' = Append(out, Msg(e, fileName))
          /\ exitCause' = e
    /\ openConns' = openConns \ {accepted}
    /\ pc' = "select"
    /\ UNCHANGED <<cfg, exitStatus, backlog, accepted, openFiles, clk, fileName,
                   dataTotal, fbuf, disk, opens, ends, peerVars, sigVars, namingVars, startVars, formatVars>>

\* OpenFileFails with conn outside the with statement: it stays open.
OpenFileFailsLeaksConn ==
    /\ pc = "accepted"
    /\ ~sigPending
    /\ \E e \in OpenOutcomes \ {"ok"} :
          /\ out' = Append(out, Msg(e, fileName))
          /\ exitCause' = e
    /\ exitStatus' = 1
    /\ pc' = "exit"
    /\ UNCHANGED <<cfg, backlog, accepted, openConns, openFiles, clk, fileName,
                   dataTotal, fbuf, disk, opens, ends, peerVars, sigVars, namingVars, startVars, formatVars>>

\* Lines 142, 156-161: open raises FileNotFoundError or PermissionError; the
\* with statement closes conn, the handler reports the file and exits.
OpenFileFails ==
    /\ pc = "accepted"
    /\ ~sigPending
    /\ \E e \in OpenOutcomes \ {"ok"} :
          /\ out' = Append(out, Msg(e, fileName))
          /\ exitCause' = e
    /\ openConns' = openConns \ {accepted}
    /\ exitStatus' = 1
    /\ pc' = "exit"
    /\ UNCHANGED <<cfg, backlog, accepted, openFiles, clk, fileName, dataTotal, fbuf,
                   disk, opens, ends, peerVars, sigVars, namingVars, startVars, formatVars>>

\* recv without a size limit: everything the socket holds is returned.
RecvChunkWhole(buf) == buf

\* conn.recv(4096) with buf waiting in the socket: at most 4096 bytes of it.
RecvChunk(buf) == BTake(buf, Min(RecvSize, BLen(buf)))

\* RecvData that goes on although SIGINT is pending: shutdown deferred to the
\* wait for the next connection.
RecvDataDefersSigint ==
    /\ pc = "recv"
    /\ inflight # <<>>
    /\ LET data == RecvChunk(inflight) IN
          /\ inflight' = BDrop(inflight, BLen(data))
          /\ dataTotal' = dataTotal + BLen(data)
          /\ \/ /\ fbuf' = BCat(fbuf, data)
                /\ disk' = disk
             \/ /\ fbuf' = <<>>
                /\ disk' = Appended(disk, fileName, BCat(fbuf, data))
    /\ UNCHANGED <<cfg, pc, exitStatus, exitCause, out, backlog, accepted, openConns,
                   openFiles, clk, fileName, opens, ends, peerState, peerSent,
                   sendsDone, sigVars, namingVars, startVars, formatVars>>

\* Lines 147-150: recv returns a non-empty chunk, it is written to f and
\* counted.  The file object may keep it buffered or flush it to disk.
RecvData ==
    /\ pc = "recv"
    /\ ~sigPending
    /\ inflight # <<>>
    /\ LET data == RecvChunk(inflight) IN
          /\ inflight' = BDrop(inflight, BLen(data))
          /\ dataTotal' = dataTotal + BLen(data)
          /\ \/ /\ fbuf' = BCat(fbuf, data)
                /\ disk' = disk
             \/ /\ fbuf' = <<>>
                /\ disk' = Appended(disk, fileName, BCat(fbuf, data))
    /\ UNCHANGED <<cfg, pc, exitStatus, exitCause, out, backlog, accepted, openConns,
                   openFiles, clk, fileName, opens, ends, peerState, peerSent,
                   sendsDone, sigVars, namingVars, startVars, formatVars>>

\* EndTransfer with f left unflushed: what it buffers never reaches the disk.
EndTransferNoFlush(how) ==
    /\ out' = Append(out, Msg("total", bytes2human_readable(dataTotal)))
    /\ disk' = disk
    /\ fbuf' = <<>>
    /\ openFiles' = openFiles \ {accepted}
    /\ openConns' = openConns \ {accepted}
    /\ ends' = Append(ends, how)
    /\ pc' = "select"
    /\ UNCHANGED <<cfg, exitStatus, exitCause, backlog, accepted, clk, fileName,
                   dataTotal, opens, peerVars, sigVars, namingVars, startVars, formatVars>>

\* EndTransfer with conn left open (conn not managed by the with statement).
EndTransferLeaksConn(how) ==
    /\ out' = Append(out, Msg("total", bytes2human_readable(dataTotal)))
    /\ disk' = Appended(disk, fileName, fbuf)
    /\ fbuf' = <<>>
    /\ openFiles' = openFiles \ {accepted}
    /\ openConns' = openConns
    /\ ends' = Append(ends, how)
    /\ pc' = "select"
    /\ UNCHANGED <<cfg, exitStatus, exitCause, backlog, accepted, clk, fileName,
                   dataTotal, opens, peerVars, sigVars, namingVars, startVars, formatVars>>

\* Lines 151-155 and the end of the with block: the loop is left, the total is
\* reported, f is closed (flushing what it buffers) and conn is closed.
EndTransfer(how) ==
    /\ out' = Append(out, Msg("total", bytes2human_readable(dataTotal)))
    /\ disk' = Appended(disk, fileName, fbuf)
    /\ fbuf' = <<>>
    /\ openFiles' = openFiles \ {accepted}
    /\ openConns' = openConns \ {accepted}
    /\ ends' = Append(ends, how)
    /\ pc' = "select"
    /\ UNCHANGED <<cfg, exitStatus, exitCause, backlog, accepted, clk, fileName,
                   dataTotal, opens, peerVars, sigVars, namingVars, startVars, formatVars>>

\* RecvEOF without "if not data: break": the loop calls recv again, which
\* returns b'' again.
RecvEOFIgnored ==
    /\ pc = "recv"
    /\ ~sigPending
    /\ inflight = <<>>
    /\ peerState = "closed"
    /\ UNCHANGED vars

\* Lines 147, 151-152: recv returns b'' because the peer closed.
RecvEOF ==
    /\ pc = "recv"
    /\ ~sigPending
    /\ inflight = <<>>
    /\ peerState = "closed"
    /\ EndTransfer("eof")

\* RecvReset without the except clause: ConnectionResetError ends the process.
RecvResetFatal ==
    /\ pc = "recv"
    /\ ~sigPending
    /\ peerState = "reset"
    /\ disk' = Appended(disk, fileName, fbuf)
    /\ fbuf' = <<>>
    /\ openFiles' = openFiles \ {accepted}
    /\ openConns' = openConns \ {accepted}
    /\ ends' = Append(ends, "reset")
    /\ out' = Append(out, Msg("traceback", <<>>))
    /\ exitCause' = "ConnectionResetError"
    /\ exitStatus' = 1
    /\ pc' = "exit"
    /\ UNCHANGED <<cfg, backlog, accepted, clk, fileName, dataTotal, opens, peerVars,
                   sigVars, namingVars, startVars, formatVars>>

\* Lines 147, 153-154: recv raises ConnectionResetError.
RecvReset ==
    /\ pc = "recv"
    /\ ~sigPending
    /\ peerState = "reset"
    /\ EndTransfer("reset")

\* RecvWriteFails with the error swallowed (except OSError: continue): the
\* chunk is lost and the loop goes on reading.
RecvWriteFailsMasked ==
    /\ pc = "recv"
    /\ ~sigPending
    /\ inflight # <<>>
    /\ inflight' = BDrop(inflight, BLen(RecvChunk(inflight)))
    /\ UNCHANGED <<cfg, serverVars, backlog, peerState, peerSent, sendsDone, sigVars,
                   namingVars, startVars, formatVars>>

\* Line 149: f.write raises OSError.  No handler matches: the with statement
\* closes f and conn, and the interpreter ends with a traceback and status 1.
\* What f still buffered may or may not have reached the disk.
RecvWriteFails ==
    /\ pc = "recv"
    /\ ~sigPending
    /\ inflight # <<>>
    /\ inflight' = BDrop(inflight, BLen(RecvChunk(inflight)))
    /\ disk' \in {disk, Appended(disk, fileName, fbuf)}
    /\ fbuf' = <<>>
    /\ openFiles' = openFiles \ {accepted}
    /\ openConns' = openConns \ {accepted}
    /\ out' = Append(out, Msg("traceback", <<>>))
    /\ exitCause' = "OSError"
    /\ exitStatus' = 1
    /\ pc' = "exit"
    /\ UNCHANGED <<cfg, backlog, accepted, clk, fileName, dataTotal, opens, ends,
                   peerState, peerSent, sendsDone, sigVars, namingVars, startVars, formatVars>>

\* ---------------------------------------------------------------- signals
\* SIGINT is delivered to the process.  The interpreter records it; the
\* Python-level handler runs before the script executes anything further
\* (at once if a system call was interrupted, else when the call returns).
Sigint ==
    /\ pc # "exit"
    /\ sigAt = "none"
    /\ sigPending' = TRUE
    /\ sigAt' = IF pc = "select" /\ backlog = 0 THEN "idle" ELSE pc
    /\ UNCHANGED <<cfg, serverVars, backlog, peerVars, namingVars, startVars, formatVars>>

\* signal_handler without exit(1): the notice is printed and the script goes on.
signal_handler_returns ==
    /\ sigPending
    /\ sigPending' = FALSE
    /\ out' = Append(out, Msg("interrupted", <<>>))
    /\ UNCHANGED <<cfg, pc, exitStatus, exitCause, backlog, accepted, openConns,
                   openFiles, clk, fileName, dataTotal, fbuf, disk, opens, ends,
                   peerVars, sigAt, namingVars, startVars, formatVars>>

\* signal_handler with exit(0) in place of exit(1).
signal_handler_exits0 ==
    /\ sigPending
    /\ sigPending' = FALSE
    /\ out' = Append(out, Msg("interrupted", <<>>))
    /\ IF pc = "recv"
       THEN /\ disk' = Appended(disk, fileName, fbuf)
            /\ fbuf' = <<>>
            /\ openFiles' = openFiles \ {accepted}
            /\ openConns' = openConns \ {accepted}
            /\ inflight' \in {inflight, BDrop(inflight, BLen(RecvChunk(inflight)))}
       ELSE UNCHANGED <<disk, fbuf, openFiles, openConns, inflight>>
    /\ exitCause' = "sigint"
    /\ exitStatus' = 0
    /\ pc' = "exit"
    /\ UNCHANGED <<cfg, backlog, accepted, clk, fileName, dataTotal, opens, ends,
                   peerState, peerSent, sendsDone, sigAt, namingVars, startVars, formatVars>>

\* signal_handler ending the process at once (os._exit): the with block is
\* not unwound, so what f buffers is lost.
signal_handler_hard_exit ==
    /\ sigPending
    /\ sigPending' = FALSE
    /\ out' = Append(out, Msg("interrupted", <<>>))
    /\ IF pc = "recv"
       THEN /\ disk' = disk
            /\ fbuf' = <<>>
            /\ openFiles' = openFiles \ {accepted}
            /\ openConns' = openConns \ {accepted}
            /\ inflight' \in {inflight, BDrop(inflight, BLen(RecvChunk(inflight)))}
       ELSE UNCHANGED <<disk, fbuf, openFiles, openConns, inflight>>
    /\ exitCause' = "sigint"
    /\ exitStatus' = 1
    /\ pc' = "exit"
    /\ UNCHANGED <<cfg, backlog, accepted, clk, fileName, dataTotal, opens, ends,
                   peerState, peerSent, sendsDone, sigAt, namingVars, startVars, formatVars>>

\* Lines 48-51: the notice is printed and exit(1) raises SystemExit, which
\* unwinds the with block if the script is inside it (f flushed and closed,
\* conn closed).  Where a blocking recv is not interrupted by the signal, the
\* handler runs when recv returns, and the chunk recv returned is dropped.
signal_handler ==
    /\ sigPending
    /\ sigPending' = FALSE
    /\ out' = Append(out, Msg("interrupted", <<>>))
    /\ IF pc = "recv"
       THEN /\ disk' = Appended(disk, fileName, fbuf)
            /\ fbuf' = <<>>
            /\ openFiles' = openFiles \ {accepted}
            /\ openConns' = openConns \ {accepted}
            /\ inflight' \in {inflight, BDrop(inflight, BLen(RecvChunk(inflight)))}
       ELSE UNCHANGED <<disk, fbuf, openFiles, openConns, inflight>>
    /\ exitCause' = "sigint"
    /\ exitStatus' = 1
    /\ pc' = "exit"
    /\ UNCHANGED <<cfg, backlog, accepted, clk, fileName, dataTotal, opens, ends,
                   peerState, peerSent, sendsDone, sigAt, namingVars, startVars, formatVars>>

Next ==
    \/ PeerConnect
    \/ \E k \in SendSizes : PeerSend(k)
    \/ PeerClose
    \/ PeerReset
    \/ AcceptConn
    \/ OpenFileOk
    \/ OpenFileFails
    \/ RecvData
    \/ RecvEOF
    \/ RecvReset
    \/ RecvWriteFails
    \/ Sigint
    \/ signal_handler

Spec == Init /\ [][Next]_vars

\* While the script waits in the poll loop, a pending signal handler runs:
\* select returns within its one-second timeout at the latest.
FairSpec == Spec /\ WF_vars(pc = "select" /\ signal_handler)

\* A step of the script between accept and the end of the with block: open
\* returns or raises, recv returns what the socket has (data, end of stream,
\* reset), the write of the chunk returns or raises.
ScriptStep ==
    \/ OpenFileOk
    \/ OpenFileFails
    \/ RecvData
    \/ RecvWriteFails
    \/ RecvEOF
    \/ RecvReset

\* The serve loop while no SIGINT is delivered.
LiveNext ==
    \/ PeerConnect
    \/ \E k \in SendSizes : PeerSend(k)
    \/ PeerClose
    \/ PeerReset
    \/ AcceptConn
    \/ ScriptStep

\* No SIGINT is delivered, the script runs on, and every peer eventually
\* closes or resets its connection.
LiveSpec ==
    /\ Init
    /\ [][LiveNext]_vars
    /\ WF_vars(ScriptStep)
    /\ WF_vars(PeerClose \/ PeerReset)

\* ------------------------------------------------------------- start-up
\* The largest number tried as --bind_port, every number from 0 on being tried.
MaxPortArg == 65540

\* Values of --bind_ip that are IPv4 or IPv6 addresses.
IpLiterals ==
    { <<48, 46, 48, 46, 48, 46, 48>>,   \* "0.0.0.0"
      <<49, 50, 55, 46, 48, 46, 48, 46, 49>>,   \* "127.0.0.1"
      <<49, 57, 50, 46, 49, 54, 56, 46, 49, 46, 49, 48>>,   \* "192.168.1.10"
      <<50, 53, 53, 46, 50, 53, 53, 46, 50, 53, 53, 46, 50, 53, 53>>,   \* "255.255.255.255"
      <<58, 58>>,   \* "::"
      <<58, 58, 49>>,   \* "::1"
      <<102, 101, 56, 48, 58, 58, 49, 37, 101, 116, 104, 48>>,   \* "fe80::1%eth0"
      <<50, 48, 48, 49, 58, 100, 98, 56, 58, 58, 56, 97, 50, 101, 58, 51, 55, 48, 58, 55, 51, 51, 52>>,   \* "2001:db8::8a2e:370:7334"
      <<49, 58, 50, 58, 51, 58, 52, 58, 53, 58, 54, 58, 55, 58, 56>>,   \* "1:2:3:4:5:6:7:8"
      <<58, 58, 102, 102, 102, 102, 58, 49, 48, 46, 48, 46, 48, 46, 49>> }   \* "::ffff:10.0.0.1"

\* Values of --bind_ip that are not.
IpNonLiterals ==
    { <<>>,   \* ""
      <<108, 111, 99, 97, 108, 104, 111, 115, 116>>,   \* "localhost"
      <<50, 53, 54, 46, 48, 46, 48, 46, 49>>,   \* "256.0.0.1"
      <<49, 46, 50, 46, 51>>,   \* "1.2.3"
      <<49, 46, 50, 46, 51, 46, 52, 46, 53>>,   \* "1.2.3.4.5"
      <<49, 46, 50, 46, 51, 46, 120>>,   \* "1.2.3.x"
      <<58, 58, 58>>,   \* ":::"
      <<49, 58, 58, 50, 58, 58, 51>>,   \* "1::2::3"
      <<49, 50, 51, 52, 53, 58, 58, 49>>,   \* "12345::1"
      <<103, 58, 58, 49>>,   \* "g::1"
      <<49, 58, 50, 58, 51, 58, 52, 58, 53, 58, 54, 58, 55, 58, 56, 58, 57>>,   \* "1:2:3:4:5:6:7:8:9"
      <<58, 58, 49, 37>>,   \* "::1%"
      <<49, 48, 46, 48, 46, 48, 46, 49, 58, 56, 48, 56, 48>> }   \* "10.0.0.1:8080"

\* Values of --bind_port other than plain numerals.
OddPortArgs ==
    { <<45, 49>>,   \* "-1"
      <<43, 49, 48, 50, 52>>,   \* "+1024"
      <<104, 116, 116, 112>>,   \* "http"
      <<>>,   \* ""
      <<32, 50, 48, 48, 48>>,   \* " 2000"
      <<56, 48, 46, 53>>,   \* "80.5"
      <<48, 120, 49, 70, 57, 48>>,   \* "0x1F90"
      <<49, 48, 48, 48, 48, 48>> }   \* "100000"

\* The numerals of 0..MaxPortArg.
PortNumerals == {Dec(p) : p \in 0..MaxPortArg}

\* Command lines: every address with a few ports, every port with the default
\* address.
StartArgv ==
    {WithBind(MainArgs, ip, port) :
        ip \in IpLiterals \cup IpNonLiterals \cup {None},
        port \in OddPortArgs \cup {None, Dec(1023), Dec(1024), Dec(65535), Dec(65536)}}
    \cup {WithBind(MainArgs, None, port) : port \in PortNumerals}

\* Nothing has happened on the network, to the files or to the process.
AtRest ==
    /\ exitStatus = -1
    /\ exitCause = "none"
    /\ out = <<>>
    /\ backlog = 0
    /\ accepted = 0
    /\ openConns = {}
    /\ openFiles = {}
    /\ clk = 1
    /\ fileName = <<>>
    /\ dataTotal = 0
    /\ fbuf = <<>>
    /\ disk = <<>>
    /\ opens = 0
    /\ peerState = "none"
    /\ peerSent = 0
    /\ sendsDone = 0
    /\ inflight = <<>>
    /\ ends = <<>>
    /\ sigPending = FALSE
    /\ sigAt = "none"

\* State at line 100, before the arguments are parsed: the globals of lines
\* 85-90 hold their defaults and no socket exists.
StartInit ==
    /\ AtRest
    /\ pc = "start"
    /\ argv \in StartArgv
    /\ cfg = ResolveConfig([path |-> None, prefix |-> None, ext |-> None])
    /\ bound = FALSE
    /\ bindAddr = <<StrAnyAddr, DefaultPort>>
    /\ stamps = <<>>
    /\ names = <<>>
    /\ count = <<0, 0>>
    /\ text = <<>>

\* The outcome of the type functions of --bind_ip and --bind_port on a.
ParsedBind(a) ==
    [ip   |-> IF a.bind_ip # None THEN check_valid_ip(a.bind_ip) ELSE Returns(None),
     port |-> IF a.bind_port # None THEN check_port_value(a.bind_port) ELSE Returns(None)]

\* Lines 100-115: parse_args calls the type function of each option given.
\* If one raises ValueError, argparse reports the error on standard error and
\* exits with status 2; otherwise the globals take the values given.
ParseArgs ==
    /\ pc = "start"
    /\ ~sigPending
    /\ LET args == ParsedBind(argv) IN
       IF args.ip.raised \/ args.port.raised
       THEN /\ exitCause' = "argparse"
            /\ exitStatus' = 2
            /\ pc' = "exit"
            /\ UNCHANGED <<cfg, bindAddr>>
       ELSE /\ cfg' = ResolveConfig(argv)
            /\ bindAddr' = <<IF argv.bind_ip # None THEN args.ip.value ELSE bindAddr[1],
                             IF argv.bind_port # None THEN args.port.value ELSE bindAddr[2]>>
            /\ pc' = "bind"
            /\ UNCHANGED <<exitCause, exitStatus>>
    /\ UNCHANGED <<out, backlog, accepted, openConns, openFiles, clk, fileName,
                   dataTotal, fbuf, disk, opens, ends, peerVars, sigVars, namingVars,
                   argv, bound, formatVars>>

\* Lines 117-123: the waiting message is printed, the socket is created,
\* bound to (bindIP, bindPort) and put into the listening state.
BindListen ==
    /\ pc = "bind"
    /\ ~sigPending
    /\ out' = Append(out, Msg("waiting", <<>>))
    /\ bound' = TRUE
    /\ pc' = "select"
    /\ UNCHANGED <<cfg, exitStatus, exitCause, backlog, accepted, openConns, openFiles,
                   clk, fileName, dataTotal, fbuf, disk, opens, ends, peerVars, sigVars,
                   namingVars, argv, bindAddr, formatVars>>

\* Line 122: s.bind raises OSError (the address is not one of this host's, or
\* the port is in use).  Nothing catches it: traceback and status 1.
BindFails ==
    /\ pc = "bind"
    /\ ~sigPending
    /\ out' = out \o <<Msg("waiting", <<>>), Msg("traceback", <<>>)>>
    /\ exitCause' = "bind"
    /\ exitStatus' = 1
    /\ pc' = "exit"
    /\ UNCHANGED <<cfg, backlog, accepted, openConns, openFiles, clk, fileName,
                   dataTotal, fbuf, disk, opens, ends, peerVars, sigVars, namingVars,
                   startVars, formatVars>>

\* Start-up, and the first connections once the socket listens.
StartNext ==
    \/ ParseArgs
    \/ BindListen
    \/ BindFails
    \/ PeerConnect
    \/ AcceptConn

StartSpec == StartInit /\ [][StartNext]_vars

\* ------------------------------------------------------- file naming alone
\* Command lines for which file names are generated.
NameArgs ==
    { [path |-> None, prefix |-> None, ext |-> None],
      [path |-> StrOut \o <<Slash>>, prefix |-> StrLog, ext |-> <<Dot>>] }

\* Datetimes at the ends of every calendar field, over a change of century.
Stamps ==
    [year : {1999, 2000, 2001}, month : {1, 12}, day : {1, 31}, hour : {0, 23},
     minute : {0, 59}, second : {0, 59}, microsecond : {0, 99, 101, 999999}]

NameInit ==
    /\ cfg \in {ResolveConfig(a) : a \in NameArgs}
    /\ stamps \in Stamps \X Stamps
    /\ names = <<>>
    /\ pc = "naming"
    /\ exitStatus = -1
    /\ exitCause = "none"
    /\ out = <<>>
    /\ backlog = 0
    /\ accepted = 0
    /\ openConns = {}
    /\ openFiles = {}
    /\ clk = 1
    /\ fileName = <<>>
    /\ dataTotal = 0
    /\ fbuf = <<>>
    /\ disk = <<>>
    /\ opens = 0
    /\ peerState = "none"
    /\ peerSent = 0
    /\ sendsDone = 0
    /\ inflight = <<>>
    /\ ends = <<>>
    /\ sigPending = FALSE
    /\ sigAt = "none"
    /\ argv = WithBind(MainArgs, None, None)
    /\ bound = FALSE
    /\ bindAddr = <<StrAnyAddr, DefaultPort>>
    /\ count = <<0, 0>>
    /\ text = <<>>

\* Lines 133-140 applied to each of the two datetimes.
GenerateNames ==
    /\ pc = "naming"
    /\ names = <<>>
    /\ names' = <<MakeFileName(cfg, stamps[1]), MakeFileName(cfg, stamps[2])>>
    /\ UNCHANGED <<cfg, serverVars, backlog, peerVars, sigVars, stamps, startVars,
                   formatVars>>

NameNext == GenerateNames

NameSpec == NameInit /\ [][NameNext]_vars

\* Days from 0000-03-01 to the date of t (proleptic Gregorian calendar).
DayNumber(t) ==
    LET y == IF t.month <= 2 THEN t.year - 1 ELSE t.year
        mp == (t.month + 9) % 12
        doy == (153 * mp + 2) \div 5 + t.day - 1
    IN  y * 365 + (y \div 4) - (y \div 100) + (y \div 400) + doy

SecondOfDay(t) == t.hour * 3600 + t.minute * 60 + t.second

\* b is later than a by strictly more than one ten-thousandth of a second
\* (100 microseconds).
LaterByMoreThanTick(a, b) ==
    LET dd == DayNumber(b) - DayNumber(a) IN
    IF dd > 1 THEN TRUE
    ELSE IF dd < -1 THEN FALSE
    ELSE LET ds == dd * 86400 + SecondOfDay(b) - SecondOfDay(a) IN
         IF ds > 1 THEN TRUE
         ELSE IF ds < -1 THEN FALSE
         ELSE ds * 1000000 + b.microsecond - a.microsecond > 100

\* --------------------------------------------------------- formatting alone
\* Byte counts: around each threshold, the even and odd halves for rounding,
\* and counts up to 4 GB.
Counts ==
    {0, 1, 2, 5, 1023, 1024, 1025, 1536, 2047, 2048, 3072, 4095}
    \X {0, 1, 5, 512, 1023, 1024, 1025, 1029, 1152, 2048, 5120, 524288, MB - 1}

FormatInit ==
    /\ AtRest
    /\ pc = "format"
    /\ count \in Counts
    /\ text = <<>>
    /\ cfg = ResolveConfig(MainArgs)
    /\ argv = WithBind(MainArgs, None, None)
    /\ bound = FALSE
    /\ bindAddr = <<StrAnyAddr, DefaultPort>>
    /\ stamps = <<>>
    /\ names = <<>>

\* Line 155: bytes2human_readable(dataTotal) for dataTotal = count.
Format ==
    /\ pc = "format"
    /\ text = <<>>
    /\ text' = bytes2human_readable_wide(count)
    /\ UNCHANGED <<cfg, serverVars, backlog, peerVars, sigVars, namingVars, startVars,
                   count>>

FormatNext == Format

FormatSpec == FormatInit /\ [][FormatNext]_vars

\* ----------------------------------------------------------------- claims
\* The receive loop of the current connection has ended in the way `how`.
Ended(how) == accepted > 0 /\ Len(ends) = accepted /\ ends[accepted] = how

\* The lines "Received total: ..." printed so far.
Totals == SelectSeq(out, LAMBDA m : m.kind = "total")

\* "0 B"
StrZeroB == <<Zero, 32, 66>>

\* C1: once a connection that the peer closed cleanly is finished, its file
\* holds exactly the bytes the peer sent, in order, whatever the payload size
\* and however recv split the stream.
C1_RoundTrip ==
    Ended("eof") =>
        /\ fileName \in DOMAIN disk
        /\ disk[fileName] = Stream(accepted, peerSent)

\* A payload one byte longer than the chunk size has been received over two
\* recv calls and the connection closed cleanly.
C1_Witness ==
    /\ Ended("eof")
    /\ peerSent = RecvSize + 1
    /\ BLen(disk[fileName]) = RecvSize + 1

\* C2: after a peer reset the file holds exactly the bytes recv returned
\* before it, the process has not terminated because of the reset, and the
\* server waits again and accepts a pending connection.
C2_ResetNotFatal ==
    Ended("reset") =>
        /\ fileName \in DOMAIN disk
        /\ disk[fileName] = Stream(accepted, peerSent - BLen(inflight))
        /\ BLen(disk[fileName]) = dataTotal
        /\ pc = "select" \/ exitCause = "sigint"
        /\ (pc = "select" /\ ~sigPending /\ backlog > 0) => ENABLED AcceptConn

\* A connection was reset after a full chunk had been received, and a later
\* connection is being served.
C2_Witness ==
    /\ accepted = 2
    /\ ends = <<"reset">>
    /\ pc = "recv"
    /\ \E n \in DOMAIN disk : n # fileName /\ BLen(disk[n]) = RecvSize

\* C3: when open fails, the error naming the file is the last thing printed,
\* the process has exit status 1, no byte of that connection was read, and no
\* connection is accepted afterwards.
C3_OpenFailureFatal ==
    /\ [](exitCause \in {"FileNotFoundError", "PermissionError"} =>
            /\ pc = "exit"
            /\ exitStatus = 1
            /\ out[Len(out)] = Msg(exitCause, fileName)
            /\ BLen(inflight) = peerSent)
    /\ [][(exitCause \in {"FileNotFoundError", "PermissionError"})
             => (accepted' = accepted)]_vars

\* The open failed for a connection that had already sent data, with another
\* connection pending.
C3_Witness ==
    /\ exitCause = "FileNotFoundError"
    /\ peerSent > 0
    /\ backlog > 0

\* C4: an interrupt delivered while the server idles in the poll loop with no
\* pending connection leads to the notice being printed and exit status 1, and
\* from the interrupt on no connection is accepted and no file is created.
C4_IdleInterrupt ==
    /\ (sigPending /\ sigAt = "idle") ~>
            (pc = "exit" /\ exitStatus = 1 /\ out[Len(out)].kind = "interrupted")
    /\ [][sigAt = "idle" => (accepted' = accepted /\ DOMAIN disk' = DOMAIN disk)]_vars

\* The process ended on an interrupt delivered while idle; a connection made
\* after the interrupt was never accepted.
C4_Witness ==
    /\ sigAt = "idle"
    /\ pc = "exit"
    /\ exitCause = "sigint"
    /\ backlog > 0

\* C5: the number of output files on disk equals the number of accepted
\* connections whose file open succeeded.
C5_OneFilePerConnection == Cardinality(DOMAIN disk) = opens

\* C6 as stated: for any two datetimes more than a ten-thousandth of a second
\* apart, the names differ and the earlier datetime's name is the smaller.
C6_NamesOrderedAnyTime ==
    (names # <<>> /\ LaterByMoreThanTick(stamps[1], stamps[2])) =>
        /\ names[1] # names[2]
        /\ StrLess(names[1], names[2])

\* C6, amended: for any two datetimes of the same century more than a
\* ten-thousandth of a second apart, the names differ and the earlier
\* datetime's name is the smaller.
C6_NamesOrderedWithinCentury ==
    (/\ names # <<>>
     /\ LaterByMoreThanTick(stamps[1], stamps[2])
     /\ stamps[1].year \div 100 = stamps[2].year \div 100) =>
        /\ names[1] # names[2]
        /\ StrLess(names[1], names[2])

\* Names were generated for two datetimes 101 microseconds apart across the
\* end of a year inside one century, and they are ordered.
C6_Witness ==
    /\ names # <<>>
    /\ stamps[1] = [year |-> 2000, month |-> 12, day |-> 31, hour |-> 23,
                    minute |-> 59, second |-> 59, microsecond |-> 999999]
    /\ stamps[2] = [year |-> 2001, month |-> 1, day |-> 1, hour |-> 0,
                    minute |-> 0, second |-> 0, microsecond |-> 101]
    /\ StrLess(names[1], names[2])

\* C7: at most one accepted connection and at most one output file are open
\* at any moment, and a connection is accepted only when no connection and no
\* file is open; a stalled peer therefore keeps every other connection waiting.
C7_OneAtATime ==
    /\ [](Cardinality(openConns) <= 1 /\ Cardinality(openFiles) <= 1)
    /\ [](pc = "recv" => (openConns = {accepted} /\ openFiles = {accepted}))
    /\ [][(accepted' # accepted) => (openConns = {} /\ openFiles = {})]_vars

\* A peer neither sends nor closes while another connection is pending.
C7_Witness ==
    /\ pc = "recv"
    /\ peerState = "open"
    /\ inflight = <<>>
    /\ backlog > 0
    /\ openConns = {accepted}
    /\ openFiles = {accepted}

\* C8: when an iteration has ended by EOF, reset, file-open failure or write
\* error, its connection and its file are closed; while the server waits for
\* a connection, nothing is open.
C8_ClosedOnEveryExit ==
    (\/ pc = "select"
     \/ Len(ends) = accepted
     \/ exitCause \in {"FileNotFoundError", "PermissionError", "OSError"}) =>
        (openConns = {} /\ openFiles = {})

\* The second connection's iteration ended on a write error after the first
\* ended normally.
C8_Witness ==
    /\ exitCause = "OSError"
    /\ accepted = 2
    /\ Len(ends) = 1
    /\ openConns = {}
    /\ openFiles = {}

\* C9 as stated: the shutdown transition is taken only from the wait for a
\* connection; while a connection is in the receive loop an interrupt does
\* not terminate the process.
C9_NoShutdownInReceiveLoop ==
    [][(pc = "recv") => ~(pc' = "exit" /\ exitCause' = "sigint")]_vars

\* C9, amended: an interrupt takes effect wherever the script is, in the wait
\* for a connection, between accept and open, or in the receive loop; the
\* shutdown it causes has exit status 1, and once the interrupt is delivered
\* no connection is accepted, no file is created and nothing more is written
\* to the file or counted, so an interrupt in the receive loop cuts that
\* transfer short.
C9_InterruptAnywhere ==
    /\ [](exitCause = "sigint" =>
            /\ pc = "exit"
            /\ exitStatus = 1
            /\ sigAt \in {"idle", "select", "accepted", "recv"})
    /\ [][(sigAt # "none") =>
            (/\ dataTotal' = dataTotal
             /\ accepted' = accepted
             /\ DOMAIN disk' = DOMAIN disk
             /\ (fileName \in DOMAIN disk) =>
                    (BCat(disk'[fileName], fbuf') = BCat(disk[fileName], fbuf)))]_vars

\* The process ended on an interrupt delivered in the receive loop while the
\* peer was still sending: part of the stream is in the file, the rest unread.
C9_Witness ==
    /\ exitCause = "sigint"
    /\ sigAt = "recv"
    /\ peerState = "open"
    /\ dataTotal > 0
    /\ inflight # <<>>

\* C10: one total is reported per finished receive loop; it is the formatted
\* number of bytes in the connection's file; the counter counts this
\* connection's bytes only; an empty transfer gives an empty file and "0 B".
C10_TotalPerConnection ==
    /\ Len(Totals) = Len(ends)
    /\ (pc = "recv") => (dataTotal = BLen(disk[fileName]) + BLen(fbuf))
    /\ (accepted > 0 /\ Len(ends) = accepted) =>
          /\ dataTotal = BLen(disk[fileName])
          /\ Totals[Len(Totals)].arg = bytes2human_readable(BLen(disk[fileName]))
          /\ (peerSent = 0) => (disk[fileName] = <<>> /\ Totals[Len(Totals)].arg = StrZeroB)

\* The first connection transferred data, the second sent nothing and closed:
\* its total is "0 B".
C10_Witness ==
    /\ accepted = 2
    /\ Ended("eof")
    /\ peerSent = 0
    /\ Len(Totals) = 2
    /\ Totals[1].arg # StrZeroB
    /\ Totals[2].arg = StrZeroB

IsNumeral(s) == s # None /\ s # <<>> /\ \A i \in DOMAIN s : s[i] \in Digits

\* The command line has a configuration error: a bind address that is not an
\* IP literal, or a bind port that is not a number of 1024..65535 ("+1024" and
\* " 2000" are such numbers for int()).
ConfigError ==
    \/ argv.bind_ip \in IpNonLiterals
    \/ IsNumeral(argv.bind_port) /\ IntOfDigits(argv.bind_port) \notin 1024..65535
    \/ /\ argv.bind_port \in OddPortArgs
       /\ ~IsNumeral(argv.bind_port)
       /\ argv.bind_port \notin {<<43, 49, 48, 50, 52>>, <<32, 50, 48, 48, 48>>}

\* C12: a configuration error is detected by parse_args, before the socket
\* is bound: the process has exited (status 2), nothing was bound, no
\* connection was made or accepted and the waiting message was not printed.
\* Exactly the command lines with a configuration error end this way, so
\* every port of 1024..65535 passes validation and becomes bindPort.
C12_ConfigErrorBeforeBind ==
    /\ (exitCause = "argparse") =>
          /\ pc = "exit"
          /\ exitStatus = 2
          /\ ~bound
          /\ accepted = 0
          /\ backlog = 0
          /\ out = <<>>
    /\ (pc # "start") => ((exitCause = "argparse") <=> ConfigError)
    /\ (accepted > 0 \/ backlog > 0 \/ pc \in {"select", "accepted"}) => bound
    /\ bound => ~ConfigError
    /\ (pc # "start" /\ IsNumeral(argv.bind_port) /\ argv.bind_ip \notin IpNonLiterals
           /\ IntOfDigits(argv.bind_port) \in 1024..65535) =>
          /\ exitCause # "argparse"
          /\ bindAddr[2] = IntOfDigits(argv.bind_port)
          /\ Dec(bindAddr[2]) = argv.bind_port

\* Port 1023 was given with a valid address: the script has exited on the
\* argument error.
C12_Witness ==
    /\ exitCause = "argparse"
    /\ pc = "exit"
    /\ argv.bind_port = Dec(1023)
    /\ argv.bind_ip \in IpLiterals

\* s ends with u.
EndsWith(s, u) == Len(s) >= Len(u) /\ SubSeq(s, Len(s) - Len(u) + 1, Len(s)) = u

\* The count c (in two parts) is above the threshold t (in two parts).
Exceeds(c, t) == c[1] > t[1] \/ (c[1] = t[1] /\ c[2] > t[2])

\* The text is a number with exactly two decimals followed by the unit u.
TwoDecimals(s, u) ==
    LET n == Len(s) - Len(u) IN
    /\ EndsWith(s, u)
    /\ n >= 4
    /\ s[n - 2] = Dot
    /\ \A i \in 1..n : (i # n - 2) => (s[i] \in Digits)

\* C13: bytes2human_readable picks exactly one unit, the largest of KB, MB,
\* GB whose threshold (1024, 1024^2, 1024^3) the count exceeds, and B if it
\* exceeds none; in B the count is printed unscaled, otherwise with two
\* decimals; 512, 2048, 5242880 and 3221225472 give "512 B", "2.00 KB",
\* "5.00 MB" and "3.00 GB", and a count equal to a threshold stays in the
\* unit below.
C13_BinaryUnits ==
    (text # <<>>) =>
       /\ Cardinality({u \in {UnitB, UnitKB, UnitMB, UnitGB} : EndsWith(text, u)}) = 1
       /\ EndsWith(text, UnitGB) <=> Exceeds(count, Wide(GB))
       /\ EndsWith(text, UnitMB) <=> (Exceeds(count, Wide(MB)) /\ ~Exceeds(count, Wide(GB)))
       /\ EndsWith(text, UnitKB) <=> (Exceeds(count, Wide(KB)) /\ ~Exceeds(count, Wide(MB)))
       /\ EndsWith(text, UnitB) <=> ~Exceeds(count, Wide(KB))
       /\ EndsWith(text, UnitB) => (text = Dec(count[2]) \o UnitB)
       /\ \A u \in {UnitKB, UnitMB, UnitGB} : EndsWith(text, u) => TwoDecimals(text, u)
       /\ (count = Wide(512)) => (text = <<53, 49, 50, 32, 66>>)
       /\ (count = Wide(2048)) => (text = <<50, 46, 48, 48, 32, 75, 66>>)
       /\ (count = Wide(5242880)) => (text = <<53, 46, 48, 48, 32, 77, 66>>)
       /\ (count = <<3 * 1024, 0>>) => (text = <<51, 46, 48, 48, 32, 71, 66>>)
       /\ (count = Wide(1024)) => (text = <<49, 48, 50, 52, 32, 66>>)
       /\ (count = Wide(1025)) => (text = <<49, 46, 48, 48, 32, 75, 66>>)
       /\ (count = Wide(MB)) => (text = <<49, 48, 50, 52, 46, 48, 48, 32, 75, 66>>)
       /\ (count = Wide(GB)) => (text = <<49, 48, 50, 52, 46, 48, 48, 32, 77, 66>>)

\* 3221225472 bytes (3 * 1024^3) were formatted as "3.00 GB".
C13_Witness ==
    /\ count = <<3 * 1024, 0>>
    /\ text = <<51, 46, 48, 48, 32, 71, 66>>

\* C14: with no interrupt and every peer eventually closing or resetting,
\* every accepted connection is eventually closed with the script back in
\* the poll loop, unless the open or a write fails; the receive loop
\* goes round only with a non-empty chunk counted, and is left for the poll
\* loop only on end of stream or reset.
C14_EveryConnectionEnds ==
    /\ (pc \in {"accepted", "recv"}) ~>
          \/ pc = "select" /\ Len(ends) = accepted /\ openConns = {}
          \/ exitCause # "none"
    /\ [][(pc = "recv" /\ pc' = "recv" /\ serverVars' # serverVars) =>
             (dataTotal' > dataTotal /\ inflight # <<>> /\ ends' = ends)]_vars
    /\ [][(pc = "recv" /\ pc' = "select") =>
             /\ (inflight = <<>> /\ peerState = "closed") \/ peerState = "reset"
             /\ ends' = Append(ends, IF peerState = "reset" THEN "reset" ELSE "eof")]_vars

\* Two connections were served, the first ended by a reset, the second by
\* end of stream after data, and the script waits for the next one.
C14_Witness ==
    /\ pc = "select"
    /\ accepted = 2
    /\ ends = <<"reset", "eof">>
    /\ dataTotal > RecvSize
    /\ exitCause = "none"

\* C15: an interrupt delivered in the receive loop ends the process with a
\* non-zero status; conn and f are closed, no total is reported, and the
\* file stays on disk holding exactly the dataTotal bytes written before the
\* interrupt.  The rest of the stream is not read: at most the one chunk of a
\* recv already under way is taken, and it is not written; from the delivery
\* on the file neither vanishes nor shrinks nor grows beyond what was written.
C15_MidTransferInterrupt ==
    /\ [](  (exitCause = "sigint" /\ sigAt = "recv") =>
              /\ pc = "exit"
              /\ exitStatus # 0
              /\ exitStatus # -1
              /\ openConns = {}
              /\ openFiles = {}
              /\ out[Len(out)].kind = "interrupted"
              /\ Len(Totals) = Len(ends)
              /\ Len(ends) = accepted - 1
              /\ fileName \in DOMAIN disk
              /\ disk[fileName] = Stream(accepted, dataTotal)
              /\ dataTotal + BLen(inflight) <= peerSent
              /\ dataTotal + BLen(inflight) + RecvSize >= peerSent )
    /\ [][(sigAt = "recv") =>
             /\ dataTotal' = dataTotal
             /\ fileName' = fileName
             /\ DOMAIN disk' = DOMAIN disk
             /\ BLen(disk'[fileName]) >= BLen(disk[fileName])
             /\ BLen(disk'[fileName]) <= dataTotal]_vars
    /\ [][(exitCause = "sigint") => (inflight' = inflight /\ disk' = disk)]_vars

\* The process was interrupted in the receive loop with part of the stream
\* written: the file holds that part, the rest of the stream is unread.
C15_Witness ==
    /\ exitCause = "sigint"
    /\ sigAt = "recv"
    /\ dataTotal = RecvSize
    /\ peerSent = 2 * RecvSize + 1
    /\ BLen(inflight) = RecvSize + 1
    /\ BLen(disk[fileName]) = RecvSize

\* C16: a failed write is not masked.  A chunk taken from the socket in the
\* receive loop is either written and counted or the process ends; after a
\* failed write the process has ended with a traceback and status 1, conn and
\* f are closed, no total is reported, the failed chunk is not in the file,
\* and from then on nothing is read, written or accepted.
C16_WriteFailureFatal ==
    /\ [][(pc = "recv" /\ inflight' # inflight /\ BLen(inflight') < BLen(inflight)) =>
             \/ /\ pc' = "recv"
                /\ dataTotal' - dataTotal = BLen(inflight) - BLen(inflight')
                /\ BCat(disk'[fileName], fbuf') =
                      BCat(BCat(disk[fileName], fbuf),
                           Piece(accepted, dataTotal + 1, dataTotal'))
             \/ pc' = "exit"]_vars
    /\ [](  (exitCause = "OSError") =>
              /\ pc = "exit"
              /\ exitStatus = 1
              /\ out[Len(out)].kind = "traceback"
              /\ openConns = {}
              /\ openFiles = {}
              /\ Len(Totals) = Len(ends)
              /\ Len(ends) = accepted - 1
              /\ BLen(disk[fileName]) <= dataTotal
              /\ dataTotal + BLen(inflight) < peerSent )
    /\ [][(exitCause = "OSError") =>
             /\ accepted' = accepted
             /\ inflight' = inflight
             /\ dataTotal' = dataTotal
             /\ disk' = disk
             /\ out' = out]_vars

\* A write failed after part of the stream had been written, with more of
\* the stream unread and another connection waiting: the process has ended.
C16_Witness ==
    /\ exitCause = "OSError"
    /\ pc = "exit"
    /\ dataTotal > 0
    /\ inflight # <<>>
    /\ backlog > 0

\* The datetimes a and b agree in date, time and the first four digits of
\* the fraction of the second.
SameStamp(a, b) ==
    /\ <<a.year, a.month, a.day, a.hour, a.minute, a.second>> =
          <<b.year, b.month, b.day, b.hour, b.minute, b.second>>
    /\ a.microsecond \div 100 = b.microsecond \div 100

\* C17: a connection accepted with the same date, time and 4-digit fraction
\* as the one before gets the same file name; the open creates the file or
\* empties it and leaves every other file alone; so when a receive loop has
\* ended the file holds the bytes of the latest connection only, and after
\* two connections with one name there is one file, holding the second payload.
C17_SameNameOverwrites ==
    /\ [][(accepted >= 1 /\ accepted' = accepted + 1
             /\ SameStamp(ClockReadings[clk], ClockReadings[clk'])) =>
             (fileName' = fileName)]_vars
    /\ [][(pc = "accepted" /\ pc' = "recv") =>
             /\ DOMAIN disk' = DOMAIN disk \cup {fileName}
             /\ disk'[fileName] = <<>>
             /\ \A n \in DOMAIN disk \ {fileName} : disk'[n] = disk[n]]_vars
    /\ [](  (accepted >= 1 /\ Len(ends) = accepted) =>
              disk[fileName] = Stream(accepted, dataTotal) )
    /\ [](  (accepted = 2 /\ opens = 2 /\ Len(ends) = 2
               /\ SameStamp(ClockReadings[1], ClockReadings[clk])) =>
              /\ DOMAIN disk = {fileName}
              /\ disk[fileName] = Stream(2, dataTotal)
              /\ \A i \in DOMAIN disk[fileName] : disk[fileName][i].c = 2 )

\* Two connections were served within one ten-thousandth of a second, the
\* first sending 4096 bytes and the second one byte: one file exists and
\* holds the single byte of the second.
C17_Witness ==
    /\ accepted = 2
    /\ ends = <<"eof", "eof">>
    /\ clk = 2
    /\ Len(Totals) = 2
    /\ Totals[1].arg = bytes2human_readable(RecvSize)
    /\ DOMAIN disk = {fileName}
    /\ disk[fileName] = Stream(2, 1)

\* The content of the output file as the script has written it through f:
\* what is on disk followed by what f still buffers.
FileContent == BCat(disk[fileName], fbuf)

\* C18: whenever the receive loop is about to call recv, the file's content
\* is the first dataTotal bytes of the peer's stream (a prefix of what the
\* peer has sent) and what is on disk is a prefix of it; a step of the loop
\* either appends one chunk of 1..4096 bytes, the next bytes of the stream,
\* and counts it, or ends the transfer, which writes and counts nothing more;
\* no step shrinks or changes what the file held.
C18_LoopInvariant ==
    /\ [](  (pc = "recv") =>
              /\ fileName \in DOMAIN disk
              /\ FileContent = Stream(accepted, dataTotal)
              /\ BLen(FileContent) = dataTotal
              /\ dataTotal <= peerSent
              /\ dataTotal + BLen(inflight) = peerSent
              /\ disk[fileName] = Stream(accepted, BLen(disk[fileName])) )
    /\ [][(pc = "recv" /\ serverVars' # serverVars) =>
             \/ /\ pc' = "recv"
                /\ dataTotal' > dataTotal
                /\ dataTotal' - dataTotal <= RecvSize
                /\ FileContent' = BCat(FileContent, Piece(accepted, dataTotal + 1, dataTotal'))
                /\ BLen(disk'[fileName]) >= BLen(disk[fileName])
                /\ inflight' = BDrop(inflight, dataTotal' - dataTotal)
             \/ /\ pc' = "select"
                /\ dataTotal' = dataTotal
                /\ disk'[fileName] = FileContent
             \/ /\ pc' = "exit"
                /\ dataTotal' = dataTotal
                /\ BLen(disk'[fileName]) >= BLen(disk[fileName])
                /\ disk'[fileName] = Stream(accepted, BLen(disk'[fileName]))
                /\ BLen(disk'[fileName]) <= dataTotal]_vars

\* The loop is about to call recv with 4096 bytes written, part of them on
\* disk and part still buffered by f, and more of the stream waiting.
C18_Witness ==
    /\ pc = "recv"
    /\ dataTotal = RecvSize
    /\ fbuf # <<>>
    /\ disk[fileName] # <<>>
    /\ BLen(inflight) = RecvSize

====
